---- MODULE Spec2Model ----
(***************************************************************************)
(* Model of google_form_bulk_submit.py: the Selenium structure extractor,  *)
(* the random answer generators, the POST payload builder and main()'s     *)
(* cache handling and submission loop.                                     *)
(*                                                                         *)
(* Strings the code takes apart (the form action, name attributes, payload *)
(* keys) are sequences of one-character strings.  Strings the code only    *)
(* copies or tests for emptiness (attribute values, tokens, answers) are   *)
(* TLA+ strings; Python's None is the reserved value None.                 *)
(***************************************************************************)
EXTENDS Integers, Sequences, FiniteSets, TLC

VARIABLES
    page,          \* the rendered document behind form_url
    cache,         \* the cache file of this form: <<>> or <<its JSON document>>
    M,             \* number of submissions asked for
    pc,            \* where main() is: "start", "submit", "done", "aborted"
    form_struct,   \* main()'s form_struct, None before it is set
    draws,         \* what the generators returned for the last payload
    post_data,     \* the last payload built
    success,       \* main()'s success counter
    i,             \* iterations of the submission loop completed
    outcomes,      \* what session.post did on each attempt, in order
    builds,        \* calls of build_post_data
    extractions,   \* calls of extract_form_structure
    cache_writes   \* writes of the cache file

vars == <<page, cache, M, pc, form_struct, draws, post_data, success, i,
          outcomes, builds, extractions, cache_writes>>

----------------------------------------------------------------------------
(* Bounds *)

MaxContainers == 2
MaxQuestions == 2
MaxM == 2

----------------------------------------------------------------------------
(* Python values *)

None == "<None>"

\* Python truthiness of an attribute value: neither None nor ''.
Truthy(v) == v # None /\ v # ""

StartsWith(s, p) == Len(s) >= Len(p) /\ SubSeq(s, 1, Len(p)) = p

\* Index of the first occurrence of character c in s, or Len(s)+1.
RECURSIVE FirstIndex(_, _, _)
FirstIndex(s, c, k) ==
    IF k > Len(s) THEN k
    ELSE IF s[k] = c THEN k ELSE FirstIndex(s, c, k + 1)

\* full_name.split('_')[0]
SplitFirst(s, c) == SubSeq(s, 1, FirstIndex(s, c, 1) - 1)

RECURSIVE MapAttr(_, _)
MapAttr(s, attr) ==
    IF s = <<>> THEN <<>> ELSE <<Head(s)[attr]>> \o MapAttr(Tail(s), attr)

Max(a, b) == IF a >= b THEN a ELSE b

----------------------------------------------------------------------------
(* Literals of the source *)

HttpPrefix == <<"h","t","t","p">>
DocsOrigin == <<"h","t","t","p","s",":","/","/","d","o","c","s",".",
                "g","o","o","g","l","e",".","c","o","m">>
EntryPrefix == <<"e","n","t","r","y",".">>
FbzxKey == <<"f","b","z","x">>
PageHistoryKey == <<"p","a","g","e","H","i","s","t","o","r","y">>

----------------------------------------------------------------------------
(* The rendered document: elements with the attributes the extractor reads *)

Elem(tag, role, type, name, dv, al, value, kids) ==
    [tag |-> tag, role |-> role, type |-> type, name |-> name,
     dataValue |-> dv, ariaLabel |-> al, value |-> value, kids |-> kids]

Radio(dv, al)    == Elem("div", "radio", "", <<>>, dv, al, None, <<>>)
Checkbox(dv, al) == Elem("div", "checkbox", "", <<>>, dv, al, None, <<>>)
RadioGroup(kids) == Elem("div", "radiogroup", "", <<>>, None, None, None, kids)
OptionEl(value)  == Elem("option", "", "", <<>>, None, None, value, <<>>)
SelectEl(name, opts) == Elem("select", "", "", name, None, None, None, opts)
InputEl(type, name)  == Elem("input", "", type, name, None, None, "", <<>>)
TextArea(name)   == Elem("textarea", "", "", name, None, None, "", <<>>)

\* All descendants of a scope in document order (find_elements searches the
\* whole subtree of the element it is called on).
RECURSIVE Descendants(_)
Descendants(kids) ==
    IF kids = <<>> THEN <<>>
    ELSE <<Head(kids)>> \o Descendants(Head(kids).kids) \o Descendants(Tail(kids))

IsNamedEntry(e)  == StartsWith(e.name, EntryPrefix)
IsNamedSelect(e) == e.tag = "select" /\ StartsWith(e.name, EntryPrefix)
IsRadio(e)       == e.tag = "div" /\ e.role = "radio"
IsCheckbox(e)    == e.tag = "div" /\ e.role = "checkbox"
IsSelect(e)      == e.tag = "select"
IsTextInput(e)   == e.tag = "input" /\ e.type = "text"
IsTextArea(e)    == e.tag = "textarea"
IsRadioGroup(e)  == e.tag = "div" /\ e.role = "radiogroup"
IsDateInput(e)   == e.tag = "input" /\ e.type = "date"
IsTimeInput(e)   == e.tag = "input" /\ e.type = "time"
IsOption(e)      == e.tag = "option"

FindRadiosTopOnly(scope) == SelectSeq(scope, IsRadio)

\* qc.find_elements(By.CSS_SELECTOR, 'div[role="radio"]')
FindRadios(scope) == SelectSeq(Descendants(scope), IsRadio)

\* [v for v in (e.get_attribute(attr) ...) if v]
TruthyAttrs(elems, attr) == SelectSeq(MapAttr(elems, attr), Truthy)

\* data-value of each element, falling back to the aria-labels when no
\* element carries a data-value.
OptionsWithFallback(elems) ==
    IF TruthyAttrs(elems, "dataValue") # <<>>
    THEN TruthyAttrs(elems, "dataValue")
    ELSE TruthyAttrs(elems, "ariaLabel")

\* data-value of the radios nested in each radiogroup, group after group.
RECURSIVE ScaleOptions(_)
ScaleOptions(groups) ==
    IF groups = <<>> THEN <<>>
    ELSE TruthyAttrs(FindRadios(Head(groups).kids), "dataValue")
         \o ScaleOptions(Tail(groups))

\* entry_id of a container: None when it holds no element named entry.*
NamedElements(qc) ==
    SelectSeq(Descendants(qc), IsNamedEntry) \o SelectSeq(Descendants(qc), IsNamedSelect)

EntryId(qc) ==
    IF NamedElements(qc) # <<>>
    THEN SplitFirst(NamedElements(qc)[1].name, "_")
    ELSE <<>>

\* The ordered type tests; q_type is None when none matches.
ClassifyCheckboxFirst(qc) ==
    LET d == Descendants(qc) IN
    IF SelectSeq(d, IsCheckbox) # <<>> THEN "checkbox"
    ELSE IF FindRadios(qc) # <<>> THEN "radio"
    ELSE IF SelectSeq(d, IsSelect) # <<>> THEN "dropdown"
    ELSE IF SelectSeq(d, IsTextInput) # <<>> THEN "text"
    ELSE IF SelectSeq(d, IsTextArea) # <<>> THEN "paragraph"
    ELSE IF SelectSeq(d, IsRadioGroup) # <<>> THEN "scale"
    ELSE IF SelectSeq(d, IsDateInput) # <<>> THEN "date"
    ELSE IF SelectSeq(d, IsTimeInput) # <<>> THEN "time"
    ELSE None

Classify(qc) ==
    LET d == Descendants(qc) IN
    IF FindRadios(qc) # <<>> THEN "radio"
    ELSE IF SelectSeq(d, IsCheckbox) # <<>> THEN "checkbox"
    ELSE IF SelectSeq(d, IsSelect) # <<>> THEN "dropdown"
    ELSE IF SelectSeq(d, IsTextInput) # <<>> THEN "text"
    ELSE IF SelectSeq(d, IsTextArea) # <<>> THEN "paragraph"
    ELSE IF SelectSeq(d, IsRadioGroup) # <<>> THEN "scale"
    ELSE IF SelectSeq(d, IsDateInput) # <<>> THEN "date"
    ELSE IF SelectSeq(d, IsTimeInput) # <<>> THEN "time"
    ELSE None

\* options_list collected by the branch that set q_type.
OptionsList(qc) ==
    LET d == Descendants(qc)
        t == Classify(qc) IN
    IF t = "radio" THEN OptionsWithFallback(FindRadios(qc))
    ELSE IF t = "checkbox" THEN OptionsWithFallback(SelectSeq(d, IsCheckbox))
    ELSE IF t = "dropdown"
         THEN TruthyAttrs(SelectSeq(Descendants(SelectSeq(d, IsSelect)[1].kids),
                                      IsOption), "value")
    ELSE IF t = "scale" THEN ScaleOptions(SelectSeq(d, IsRadioGroup))
    ELSE <<>>

Question(qc) ==
    [entry_id |-> EntryId(qc), type |-> Classify(qc), options |-> OptionsList(qc)]

\* if entry_id and q_type: questions.append(...)
YieldsQuestion(qc) == EntryId(qc) # <<>> /\ Classify(qc) # None

RECURSIVE ExtractQuestionsStopAtSkip(_)
ExtractQuestionsStopAtSkip(containers) ==
    IF containers = <<>> THEN <<>>
    ELSE IF YieldsQuestion(Head(containers))
         THEN <<Question(Head(containers))>> \o ExtractQuestionsStopAtSkip(Tail(containers))
         ELSE <<>>

\* The loop over the containers.
RECURSIVE ExtractQuestions(_)
ExtractQuestions(containers) ==
    IF containers = <<>> THEN <<>>
    ELSE (IF YieldsQuestion(Head(containers))
          THEN <<Question(Head(containers))>> ELSE <<>>)
         \o ExtractQuestions(Tail(containers))

----------------------------------------------------------------------------
(* extract_form_structure *)

\* form.get_attribute('action'): <<>> when the attribute is missing (None),
\* otherwise <<chars>>.
NoAttr == <<>>
Attr(s) == <<s>>

\* if not action.startswith('http'): action = 'https://docs.google.com' + action
ActionUrl(action) ==
    IF ~StartsWith(action, HttpPrefix) THEN DocsOrigin \o action ELSE action

\* The statements of the try block that raise: driver.get, the wait for the
\* form, action.startswith on None, find_element(By.NAME, 'fbzx').
ExtractionRaises(p) ==
    IF p.get = "raises" THEN TRUE
    ELSE IF p.forms = <<>> THEN TRUE
    ELSE IF p.forms[1].action = NoAttr THEN TRUE
    ELSE p.fbzx = <<>>

\* page_history stays None when no pageHistory element exists.
PageHistory(p) == IF p.pageHistory = <<>> THEN None ELSE p.pageHistory[1]

ExtractFormStructureKeepsPartial(p) ==
    [action_url |-> IF p.forms # <<>> /\ p.forms[1].action # NoAttr
                    THEN ActionUrl(p.forms[1].action[1]) ELSE <<>>,
     fbzx |-> IF p.fbzx # <<>> THEN p.fbzx[1] ELSE None,
     page_history |-> PageHistory(p),
     questions |-> ExtractQuestions(p.containers)]

\* The dict returned when nothing raises.
ExtractFormStructure(p) ==
    [action_url |-> ActionUrl(p.forms[1].action[1]),
     fbzx |-> p.fbzx[1],
     page_history |-> PageHistory(p),
     questions |-> ExtractQuestions(p.containers)]

----------------------------------------------------------------------------
(* Random answer generators: the set of values each can return *)

TextSamples == {"apple banana"}
ParagraphSamples == {"car dog. energy finance."}
DateSamples == {"2000-01-01"}
TimeSamples == {"23:59"}

RandomText == TextSamples
RandomParagraph == ParagraphSamples
RandomDate == DateSamples
RandomTime == TimeSamples

\* random.choice(options) if options else ""
RandomChoice(options) ==
    IF options # <<>> THEN {options[k] : k \in 1..Len(options)} ELSE {""}

\* random.sample(options, k): k distinct positions of options, in any order.
Sample(options, k) ==
    {[t \in 1..k |-> options[pos[t]]] :
        pos \in {f \in [1..k -> 1..Len(options)] :
                    \A a, b \in 1..k : a # b => f[a] # f[b]}}

RandomMultipleUpToAll(options) ==
    IF options = <<>> THEN {<<>>}
    ELSE UNION {Sample(options, k) : k \in 1..Len(options)}

\* k = random.randint(1, max(1, len(options)//2)); random.sample(options, k)
RandomMultiple(options) ==
    IF options = <<>> THEN {<<>>}
    ELSE UNION {Sample(options, k) : k \in 1..Max(1, Len(options) \div 2)}

\* What the generator called for a question of this type can return.
Draws(q) ==
    IF q.type \in {"radio", "dropdown", "scale"} THEN RandomChoice(q.options)
    ELSE IF q.type = "checkbox" THEN RandomMultiple(q.options)
    ELSE IF q.type = "text" THEN RandomText
    ELSE IF q.type = "paragraph" THEN RandomParagraph
    ELSE IF q.type = "date" THEN RandomDate
    ELSE IF q.type = "time" THEN RandomTime
    ELSE {""}

\* All runs of the generators over the questions of a schema.
RECURSIVE DrawsFor(_)
DrawsFor(questions) ==
    IF questions = <<>> THEN {<<>>}
    ELSE {<<d>> \o rest : d \in Draws(Head(questions)), rest \in DrawsFor(Tail(questions))}

----------------------------------------------------------------------------
(* build_post_data *)

PairsForAlwaysOne(q, d) ==
    IF q.type = "checkbox"
    THEN [t \in 1..Len(d) |-> <<q.entry_id, d[t]>>]
    ELSE <<<<q.entry_id, d>>>>

\* The pairs one iteration of the loop over the questions appends.
PairsFor(q, d) ==
    IF q.type \in {"radio", "dropdown", "scale"}
    THEN (IF q.options # <<>> THEN <<<<q.entry_id, d>>>> ELSE <<>>)
    ELSE IF q.type = "checkbox"
    THEN [t \in 1..Len(d) |-> <<q.entry_id, d[t]>>]
    ELSE IF q.type \in {"text", "paragraph", "date", "time"}
    THEN <<<<q.entry_id, d>>>>
    ELSE <<>>

RECURSIVE AnswerPairs(_, _)
AnswerPairs(questions, ds) ==
    IF questions = <<>> THEN <<>>
    ELSE PairsFor(Head(questions), Head(ds)) \o AnswerPairs(Tail(questions), Tail(ds))

BuildPostDataTokensLast(fs, ds) ==
    AnswerPairs(fs.questions, ds)
    \o <<<<FbzxKey, fs.fbzx>>>>
    \o (IF Truthy(fs.page_history)
        THEN <<<<PageHistoryKey, fs.page_history>>>> ELSE <<>>)

BuildPostData(fs, ds) ==
    <<<<FbzxKey, fs.fbzx>>>>
    \o (IF Truthy(fs.page_history)
        THEN <<<<PageHistoryKey, fs.page_history>>>> ELSE <<>>)
    \o AnswerPairs(fs.questions, ds)

----------------------------------------------------------------------------
(* The cache file: json.dump / json.load of the form structure *)

\* A Python str or None as a JSON value.
JsonValue(v) == IF v = None THEN [json |-> "null"] ELSE [json |-> "string", text |-> v]
PyValue(j)   == IF j.json = "null" THEN None ELSE j.text

JsonDump(fs) ==
    [action_url |-> fs.action_url,
     fbzx |-> JsonValue(fs.fbzx),
     page_history |-> JsonValue(fs.page_history),
     questions |-> fs.questions]

JsonLoad(doc) ==
    [action_url |-> doc.action_url,
     fbzx |-> PyValue(doc.fbzx),
     page_history |-> PyValue(doc.page_history),
     questions |-> doc.questions]

----------------------------------------------------------------------------
(* Input documents *)

E1 == EntryPrefix \o <<"1">>
E2 == EntryPrefix \o <<"2">>
Sentinel == <<"_","s","e","n","t","i","n","e","l">>
OtherName == <<"o","t","h","e","r">>
RelAction == <<"/","r">>
AbsAction == HttpPrefix \o <<":","/","/","g","/","r">>

Hidden(name) == InputEl("hidden", name)

\* Containers of the rendered page: each is the sequence of its children.
ContainerPool ==
    { <<>>,                                                        \* section header
      <<Hidden(E1 \o Sentinel), Radio("A", None), Radio("B", None)>>,
      <<Hidden(E2 \o Sentinel), Radio(None, "X"), Radio("", "Y")>>,  \* aria-label fallback
      <<Hidden(E1 \o Sentinel), Radio(None, None)>>,                \* radio without options
      <<Hidden(E2 \o Sentinel), Checkbox("C", None), Radio("A", None)>>,
      <<Hidden(E2 \o Sentinel), Checkbox("A", None), Checkbox("B", None)>>,
      <<Hidden(E1 \o Sentinel), Checkbox("A", "X"), Checkbox("A", "Y"),
        Checkbox("B", None), Checkbox(None, "Z")>>,
      <<SelectEl(E1, <<OptionEl(""), OptionEl("A"), OptionEl("B")>>)>>,
      <<InputEl("text", E2), SelectEl(OtherName, <<OptionEl("A")>>)>>,
      <<InputEl("text", E1)>>,
      <<TextArea(E2), InputEl("text", <<>>)>>,
      <<TextArea(E1)>>,
      <<Hidden(E2 \o Sentinel), RadioGroup(<<>>)>>,                 \* scale, no radios
      <<Hidden(E1 \o Sentinel), RadioGroup(<<Radio("1", None), Radio("2", None)>>)>>,
      <<TextArea(E1), RadioGroup(<<>>)>>,
      <<InputEl("date", E1), RadioGroup(<<>>)>>,
      <<InputEl("time", E2), InputEl("date", E2)>>,
      <<InputEl("time", E1)>>,
      <<Radio("A", None), Checkbox("B", None), InputEl("text", <<>>)>>,  \* no name
      <<InputEl("text", OtherName)>>,                               \* foreign name
      <<Hidden(E2 \o Sentinel)>> }                                  \* name, no control

\* The containers of the runs that go on to submit.
MainPool ==
    { <<>>,
      <<Hidden(E1 \o Sentinel), Radio("A", None), Radio("B", None)>>,
      <<Hidden(E2 \o Sentinel), Checkbox("A", None), Checkbox("B", None)>>,
      <<Hidden(E2 \o Sentinel), RadioGroup(<<>>)>>,
      <<Hidden(E1 \o Sentinel), RadioGroup(<<Radio("1", None), Radio("2", None)>>)>>,
      <<InputEl("text", E1)>> }

SeqsUpTo(S, n) == UNION {[1..k -> S] : k \in 0..n}

FormEl(action) == [action |-> action]

ExtractPages ==
    [get : {"ok", "raises"},
     forms : {<<>>, <<FormEl(NoAttr)>>, <<FormEl(Attr(RelAction))>>,
              <<FormEl(Attr(AbsAction))>>},
     fbzx : {<<>>, <<"">>, <<"T">>},
     pageHistory : {<<>>, <<"">>, <<"0">>},
     containers : SeqsUpTo(ContainerPool, MaxContainers)]

OkPage(action, fbzx, ph, cs) ==
    [get |-> "ok", forms |-> <<FormEl(Attr(action))>>, fbzx |-> fbzx,
     pageHistory |-> ph, containers |-> cs]

MainPages ==
    {OkPage(RelAction, <<"T">>, <<>>, cs) : cs \in SeqsUpTo(MainPool, MaxContainers)}
    \cup {OkPage(AbsAction, <<"T">>, <<"0">>, cs) : cs \in SeqsUpTo(MainPool, MaxContainers)}
    \cup {OkPage(AbsAction, <<"">>, <<"">>, cs) : cs \in SeqsUpTo(MainPool, 1)}
    \cup {[OkPage(AbsAction, <<"T">>, <<>>, cs) EXCEPT !.get = "raises"] :
             cs \in SeqsUpTo(MainPool, 1)}
    \cup {[OkPage(AbsAction, <<"T">>, <<>>, cs) EXCEPT !.forms = <<>>] :
             cs \in SeqsUpTo(MainPool, 1)}
    \cup {[OkPage(AbsAction, <<"T">>, <<>>, cs) EXCEPT !.forms = <<FormEl(NoAttr)>>] :
             cs \in SeqsUpTo(MainPool, 1)}
    \cup {[OkPage(AbsAction, <<"T">>, <<>>, cs) EXCEPT !.fbzx = <<>>] :
             cs \in SeqsUpTo(MainPool, 1)}

\* Cache files left by an earlier run of this program on the form.
EarlierCaches ==
    {JsonDump(ExtractFormStructure(p)) : p \in {q \in MainPages : ~ExtractionRaises(q)}}

\* The page a run finds when the cache file exists (it is never opened).
LaterPages ==
    {OkPage(RelAction, <<"T2">>, <<"1">>, <<<<InputEl("time", E2)>>>>),
     [OkPage(RelAction, <<"T">>, <<>>, <<>>) EXCEPT !.forms = <<>>]}

\* Form structures build_post_data can be handed (any cache file content).
QuestionPool ==
    { [entry_id |-> E1, type |-> "radio", options |-> <<>>],
      [entry_id |-> E1, type |-> "radio", options |-> <<"A", "B">>],
      [entry_id |-> E2, type |-> "checkbox", options |-> <<>>],
      [entry_id |-> E2, type |-> "checkbox", options |-> <<"A", "B">>],
      [entry_id |-> E1, type |-> "checkbox", options |-> <<"A", "B", "C", "D">>],
      [entry_id |-> E2, type |-> "checkbox", options |-> <<"A", "A", "B", "C">>],
      [entry_id |-> E2, type |-> "dropdown", options |-> <<"A">>],
      [entry_id |-> E1, type |-> "dropdown", options |-> <<>>],
      [entry_id |-> E1, type |-> "scale", options |-> <<>>],
      [entry_id |-> E2, type |-> "scale", options |-> <<"1", "2">>],
      [entry_id |-> E1, type |-> "text", options |-> <<>>],
      [entry_id |-> E2, type |-> "paragraph", options |-> <<>>],
      [entry_id |-> E1, type |-> "date", options |-> <<>>],
      [entry_id |-> E2, type |-> "time", options |-> <<>>] }

BuildSchemas ==
    [action_url : {AbsAction},
     fbzx : {"T"},
     page_history : {None, "", "0"},
     questions : SeqsUpTo(QuestionPool, MaxQuestions)]

\* What session.post can do: return a response with a status code, or raise.
Responses ==
    { [kind |-> "status", code |-> 200],
      [kind |-> "status", code |-> 404],
      [kind |-> "raises", code |-> 0] }

----------------------------------------------------------------------------
(* main() *)

InitCommon ==
    /\ pc = "start"
    /\ form_struct = None
    /\ draws = <<>>
    /\ post_data = <<>>
    /\ success = 0
    /\ i = 0
    /\ outcomes = <<>>
    /\ builds = 0
    /\ extractions = 0
    /\ cache_writes = 0

\* A run of main(): either no cache file yet, or one an earlier run left.
Init ==
    /\ InitCommon
    /\ M \in 0..MaxM
    /\ \/ cache = <<>> /\ page \in MainPages
       \/ cache \in {<<c>> : c \in EarlierCaches} /\ page \in LaterPages

\* Runs of the extractor over the rendered documents.
InitExtract ==
    /\ InitCommon
    /\ M = 0
    /\ cache = <<>>
    /\ page \in ExtractPages

\* Runs of the payload builder over the form structures.
InitBuild ==
    /\ InitCommon
    /\ M = 1
    /\ cache \in {<<JsonDump(fs)>> : fs \in BuildSchemas}
    /\ page \in {OkPage(RelAction, <<"T">>, <<>>, <<>>)}

LoadCacheAndExtract ==
    /\ pc = "start"
    /\ cache # <<>>
    /\ ~ExtractionRaises(page)
    /\ form_struct' = ExtractFormStructure(page)
    /\ extractions' = extractions + 1
    /\ pc' = "submit"
    /\ UNCHANGED <<page, cache, M, draws, post_data, success, i, outcomes, builds,
                   cache_writes>>

\* os.path.exists(cache_file): json.load
LoadCache ==
    /\ pc = "start"
    /\ cache # <<>>
    /\ form_struct' = JsonLoad(cache[1])
    /\ pc' = "submit"
    /\ UNCHANGED <<page, cache, M, draws, post_data, success, i, outcomes, builds,
                   extractions, cache_writes>>

\* No cache file: extract_form_structure returns and json.dump writes the file.
ExtractAndCache ==
    /\ pc = "start"
    /\ cache = <<>>
    /\ ~ExtractionRaises(page)
    /\ form_struct' = ExtractFormStructure(page)
    /\ cache' = <<JsonDump(form_struct')>>
    /\ extractions' = extractions + 1
    /\ cache_writes' = cache_writes + 1
    /\ pc' = "submit"
    /\ UNCHANGED <<page, M, draws, post_data, success, i, outcomes, builds>>

ExtractFailsKeepsGoing ==
    /\ pc = "start"
    /\ cache = <<>>
    /\ ExtractionRaises(page)
    /\ form_struct' = ExtractFormStructureKeepsPartial(page)
    /\ cache' = <<JsonDump(form_struct')>>
    /\ extractions' = extractions + 1
    /\ cache_writes' = cache_writes + 1
    /\ pc' = "submit"
    /\ UNCHANGED <<page, M, draws, post_data, success, i, outcomes, builds>>

\* No cache file: extract_form_structure raises RuntimeError, which main()
\* does not catch.
ExtractFails ==
    /\ pc = "start"
    /\ cache = <<>>
    /\ ExtractionRaises(page)
    /\ extractions' = extractions + 1
    /\ pc' = "aborted"
    /\ UNCHANGED <<page, cache, M, form_struct, draws, post_data, success, i,
                   outcomes, builds, cache_writes>>

AttemptStopsOnError ==
    /\ pc = "submit"
    /\ i < M
    /\ \E ds \in DrawsFor(form_struct.questions), r \in Responses :
          /\ draws' = ds
          /\ post_data' = BuildPostData(form_struct, ds)
          /\ builds' = builds + 1
          /\ outcomes' = Append(outcomes, r)
          /\ success' = IF r.kind = "status" /\ r.code = 200 THEN success + 1 ELSE success
          /\ pc' = IF r.kind = "raises" THEN "aborted" ELSE pc
    /\ i' = i + 1
    /\ UNCHANGED <<page, cache, M, form_struct, extractions, cache_writes>>

\* One iteration of the submission loop: build the payload, post it, count
\* a 200, report anything else.
Attempt ==
    /\ pc = "submit"
    /\ i < M
    /\ \E ds \in DrawsFor(form_struct.questions), r \in Responses :
          /\ draws' = ds
          /\ post_data' = BuildPostData(form_struct, ds)
          /\ builds' = builds + 1
          /\ outcomes' = Append(outcomes, r)
          /\ success' = IF r.kind = "status" /\ r.code = 200 THEN success + 1 ELSE success
    /\ i' = i + 1
    /\ UNCHANGED <<page, cache, M, pc, form_struct, extractions, cache_writes>>

\* The loop is over: print the final count.
Report ==
    /\ pc = "submit"
    /\ i = M
    /\ pc' = "done"
    /\ UNCHANGED <<page, cache, M, form_struct, draws, post_data, success, i,
                   outcomes, builds, extractions, cache_writes>>

Next == LoadCache \/ ExtractAndCache \/ ExtractFails \/ Attempt \/ Report

NextExtract == ExtractAndCache \/ ExtractFails

NextBuild == LoadCache \/ Attempt

Spec == Init /\ [][Next]_vars

\* main() is sequential code: whenever a step is possible it is taken.
FairSpec == Spec /\ WF_vars(Next)

SpecExtract == InitExtract /\ [][NextExtract]_vars

SpecBuild == InitBuild /\ [][NextBuild]_vars

----------------------------------------------------------------------------
(* Vocabulary of the properties, stated over the document and the results   *)

Range(s) == {s[k] : k \in 1..Len(s)}

\* The schema main() works with is set.
HasSchema == pc \in {"submit", "done"}

\* Some element of the container's subtree passes the test.
Exposes(qc, Test(_)) == \E e \in Range(Descendants(qc)) : Test(e)

KindOrder == <<"radio", "checkbox", "dropdown", "text", "paragraph", "scale",
               "date", "time">>

ExposesKind(qc, kind) ==
    CASE kind = "radio"     -> Exposes(qc, IsRadio)
      [] kind = "checkbox"  -> Exposes(qc, IsCheckbox)
      [] kind = "dropdown"  -> Exposes(qc, IsSelect)
      [] kind = "text"      -> Exposes(qc, IsTextInput)
      [] kind = "paragraph" -> Exposes(qc, IsTextArea)
      [] kind = "scale"     -> Exposes(qc, IsRadioGroup)
      [] kind = "date"      -> Exposes(qc, IsDateInput)
      [] kind = "time"      -> Exposes(qc, IsTimeInput)

MatchingRanks(qc) == {r \in 1..Len(KindOrder) : ExposesKind(qc, KindOrder[r])}

HasFieldName(qc) == \E e \in Range(Descendants(qc)) : StartsWith(e.name, EntryPrefix)

\* The containers the specification says produce a Question, in page order.
ProducesQuestion(qc) == HasFieldName(qc) /\ MatchingRanks(qc) # {}
Producing(containers) == SelectSeq(containers, ProducesQuestion)

FirstMatchingKind(qc) ==
    KindOrder[CHOOSE r \in MatchingRanks(qc) : \A o \in MatchingRanks(qc) : r <= o]

\* C1: every question of the extracted schema carries exactly the kind of the
\* first test, in the order radio, checkbox, select, text input, textarea,
\* radiogroup, date input, time input, that its container passes; a container
\* exposing both role=radio and role=checkbox elements is typed radio.
C1_FirstMatchingKind ==
    (HasSchema /\ extractions = 1) =>
        LET qs == form_struct.questions
            cs == Producing(page.containers) IN
        /\ Len(qs) = Len(cs)
        /\ \A j \in 1..Len(qs) :
              /\ qs[j].type = FirstMatchingKind(cs[j])
              /\ Cardinality({r \in 1..Len(KindOrder) : KindOrder[r] = qs[j].type}) = 1
              /\ (Exposes(cs[j], IsRadio) /\ Exposes(cs[j], IsCheckbox))
                    => qs[j].type = "radio"

C1_Witness ==
    /\ HasSchema /\ extractions = 1
    /\ Len(page.containers) = 1
    /\ Exposes(page.containers[1], IsRadio)
    /\ Exposes(page.containers[1], IsCheckbox)
    /\ Len(form_struct.questions) = 1

\* C2: a container without an element named entry.*, or passing no kind
\* test, yields no Question; extraction still succeeds whatever the
\* containers hold, and the Questions follow the order of their containers
\* (the j-th Question carries the field name and kind of the j-th producing
\* container).
C2_SkipsAndKeepsOrder ==
    /\ (extractions = 1 /\ page.get = "ok" /\ page.forms # <<>> /\ page.fbzx # <<>>
          /\ (\A f \in Range(page.forms) : f.action # NoAttr))
          => HasSchema
    /\ (HasSchema /\ extractions = 1) =>
        LET qs == form_struct.questions
            cs == Producing(page.containers) IN
        /\ Len(qs) = Cardinality({k \in 1..Len(page.containers) :
                                     /\ HasFieldName(page.containers[k])
                                     /\ MatchingRanks(page.containers[k]) # {}})
        /\ Len(qs) = Len(cs)
        /\ \A j \in 1..Len(qs) :
              /\ \E e \in Range(Descendants(cs[j])) :
                    /\ StartsWith(e.name, EntryPrefix)
                    /\ StartsWith(e.name, qs[j].entry_id)
              /\ StartsWith(qs[j].entry_id, EntryPrefix)
              /\ ExposesKind(cs[j], qs[j].type)

C2_Witness ==
    /\ HasSchema /\ extractions = 1
    /\ Len(page.containers) = 2
    /\ ~HasFieldName(page.containers[1])
    /\ Exposes(page.containers[1], IsRadio)
    /\ Len(form_struct.questions) = 1
    /\ form_struct.questions[1].type = "time"

\* C8 (as claimed): every schema the extractor returns has an absolute
\* submission_target and a non-empty anti_spam_token.
C8_TargetAbsoluteTokenNonEmpty ==
    (HasSchema /\ extractions = 1) =>
        /\ StartsWith(form_struct.action_url, HttpPrefix)
        /\ form_struct.fbzx # None
        /\ form_struct.fbzx # ""

\* C6: when extraction fails (no form element, no fbzx element, or the
\* accessor raises) the run is aborted with no schema, no cache file written
\* and no submission attempted.
C6_FailedExtractionAborts ==
    (extractions = 1 /\ (page.get = "raises" \/ page.forms = <<>> \/ page.fbzx = <<>>))
        => /\ pc = "aborted"
           /\ form_struct = None
           /\ cache = <<>>
           /\ cache_writes = 0
           /\ builds = 0
           /\ i = 0
           /\ outcomes = <<>>

C6_Witness ==
    /\ pc = "aborted"
    /\ extractions = 1
    /\ page.get = "ok"
    /\ page.forms # <<>>
    /\ page.fbzx = <<>>
    /\ page.containers # <<>>
    /\ M > 0

\* A key of the payload belongs to a question other than scale question j.
KeyHasOtherSource(qs, j, key) ==
    \E m \in 1..Len(qs) : m # j /\ qs[m].type # "scale" /\ qs[m].entry_id = key

\* C10: every linear-scale Question of an extracted schema has no options
\* (nested radios make the container a radio question instead), and no pair
\* of any payload comes from a linear-scale Question.
C10_ScaleHasNoOptions ==
    HasSchema =>
        LET qs == form_struct.questions IN
        \A j \in 1..Len(qs) :
            qs[j].type = "scale" =>
                /\ qs[j].options = <<>>
                /\ \A t \in 1..Len(post_data) :
                      post_data[t][1] = qs[j].entry_id
                          => KeyHasOtherSource(qs, j, post_data[t][1])

C10_Witness ==
    /\ HasSchema /\ extractions = 1 /\ builds > 0
    /\ \E j \in 1..Len(form_struct.questions) : form_struct.questions[j].type = "scale"
    /\ \E k \in 1..Len(page.containers) :
          \E g \in Range(Descendants(page.containers[k])) :
              IsRadioGroup(g) /\ g.kids # <<>>

----------------------------------------------------------------------------
(* Properties of the generators and of the payload builder *)

Built == builds > 0

ChoiceTypes == {"radio", "checkbox", "dropdown", "scale"}

Keys(pairs) == [t \in 1..Len(pairs) |-> pairs[t][1]]

RECURSIVE FieldIds(_)
FieldIds(questions) ==
    IF questions = <<>> THEN <<>>
    ELSE <<Head(questions).entry_id>> \o FieldIds(Tail(questions))

Occurrences(s, v) == Cardinality({k \in 1..Len(s) : s[k] = v})

\* keys reads as ids with every id repeated zero or more times.
RECURSIVE RepeatsInOrder(_, _)
RepeatsInOrder(keys, ids) ==
    IF keys = <<>> THEN TRUE
    ELSE IF ids = <<>> THEN FALSE
    ELSE IF Head(keys) = Head(ids)
         THEN RepeatsInOrder(Tail(keys), ids) \/ RepeatsInOrder(keys, Tail(ids))
         ELSE RepeatsInOrder(keys, Tail(ids))

TokenKeys == {FbzxKey, PageHistoryKey}

\* C3 (as claimed): fbzx first, then pageHistory iff the schema has a
\* page-sequence token, then the questions' pairs so that every pair keyed by
\* an earlier question's field_id precedes every pair keyed by a later
\* question's field_id; no other keys.
C3_Claimed ==
    Built =>
        LET qs == form_struct.questions IN
        /\ post_data[1] = <<FbzxKey, form_struct.fbzx>>
        /\ (Len(post_data) >= 2 /\ post_data[2][1] = PageHistoryKey)
              <=> (form_struct.page_history # None)
        /\ \A j1, j2 \in 1..Len(qs) : \A a, b \in 1..Len(post_data) :
              (j1 < j2 /\ post_data[a][1] = qs[j1].entry_id
                       /\ post_data[b][1] = qs[j2].entry_id) => a < b
        /\ \A t \in 1..Len(post_data) :
              post_data[t][1] \in TokenKeys \cup Range(FieldIds(qs))

\* C3 (amended): fbzx first, then pageHistory iff the schema's page-sequence
\* token is a non-empty string, then the questions' pairs in schema order:
\* the remaining keys read as the schema's field_ids in schema order, each
\* repeated zero or more times, so that when two questions have different
\* field_ids shared with no other question the earlier one's pairs all come
\* first; no other keys.
C3_TokensThenQuestionsInOrder ==
    Built =>
        LET qs == form_struct.questions
            ph == form_struct.page_history
            hasPh == ph # None /\ ph # ""
            nTok == IF hasPh THEN 2 ELSE 1 IN
        /\ Len(post_data) >= nTok
        /\ post_data[1] = <<FbzxKey, form_struct.fbzx>>
        /\ hasPh => post_data[2] = <<PageHistoryKey, ph>>
        /\ \A t \in 1..Len(post_data) : post_data[t][1] = PageHistoryKey => (hasPh /\ t = 2)
        /\ \A t \in 1..Len(post_data) : post_data[t][1] = FbzxKey => t = 1
        /\ RepeatsInOrder(Keys(SubSeq(post_data, nTok + 1, Len(post_data))), FieldIds(qs))
        /\ \A j1, j2 \in 1..Len(qs) :
              (/\ j1 < j2
               /\ Occurrences(FieldIds(qs), qs[j1].entry_id) = 1
               /\ Occurrences(FieldIds(qs), qs[j2].entry_id) = 1)
                  => \A a, b \in 1..Len(post_data) :
                        (/\ post_data[a][1] = qs[j1].entry_id
                         /\ post_data[b][1] = qs[j2].entry_id) => a < b
        /\ \A t \in 1..Len(post_data) :
              post_data[t][1] \in TokenKeys \cup Range(FieldIds(qs))

C3_Witness ==
    /\ Built
    /\ form_struct.page_history = "0"
    /\ Len(form_struct.questions) = 2
    /\ form_struct.questions[1].entry_id # form_struct.questions[2].entry_id
    /\ form_struct.questions[1].type = "checkbox"
    /\ Len(post_data) = 5
    /\ post_data[5][1] = form_struct.questions[2].entry_id

\* Number of pairs the claim gives question j of the schema.
Contribution(j) ==
    LET q == form_struct.questions[j] IN
    IF q.type \in ChoiceTypes /\ q.options = <<>> THEN 0
    ELSE IF q.type = "checkbox" THEN Len(draws[j])
    ELSE 1

RECURSIVE ContributionsFrom(_)
ContributionsFrom(j) ==
    IF j > Len(form_struct.questions) THEN 0
    ELSE Contribution(j) + ContributionsFrom(j + 1)

\* Position before the first pair of question j, counted from the end of the
\* payload.
OffsetOf(j) == Len(post_data) - ContributionsFrom(j)

\* The pairs of every question, counted and located in the payload.
ContributionsAsStated ==
    LET qs == form_struct.questions IN
    /\ Len(post_data) > ContributionsFrom(1)
    /\ \A t \in 1..OffsetOf(1) : post_data[t][1] \in TokenKeys
    /\ \A j \in 1..Len(qs) : \A t \in 1..Contribution(j) :
          post_data[OffsetOf(j) + t] =
              <<qs[j].entry_id, IF qs[j].type = "checkbox" THEN draws[j][t] ELSE draws[j]>>

\* C4 (as claimed): a choice-type question with no options contributes no
\* pair and its field_id is no key of the payload; a multi-choice question
\* with k selected options contributes k pairs keyed by its field_id, one per
\* selected option; every other question contributes one pair.
C4_Claimed ==
    Built =>
        /\ ContributionsAsStated
        /\ \A j \in 1..Len(form_struct.questions) :
              LET q == form_struct.questions[j] IN
              (q.type \in ChoiceTypes /\ q.options = <<>>)
                  => \A t \in 1..Len(post_data) : post_data[t][1] # q.entry_id

\* C4 (amended): as claimed, except that the field_id of a choice-type
\* question with no options is a key of the payload only through another
\* question of the schema that has the same field_id.
C4_PairsPerQuestion ==
    Built =>
        /\ ContributionsAsStated
        /\ \A j \in 1..Len(form_struct.questions) :
              LET q == form_struct.questions[j] IN
              (/\ q.type \in ChoiceTypes /\ q.options = <<>>
               /\ Occurrences(FieldIds(form_struct.questions), q.entry_id) = 1)
                  => \A t \in 1..Len(post_data) : post_data[t][1] # q.entry_id

C4_Witness ==
    /\ Built
    /\ Len(form_struct.questions) = 2
    /\ form_struct.questions[1].type = "radio"
    /\ form_struct.questions[1].options = <<>>
    /\ form_struct.questions[2].type = "checkbox"
    /\ Len(draws[2]) = 2
    /\ Len(post_data) = 3

\* The answers drawn for the closed-domain questions with options, all but
\* the absence of duplicates among a multi-choice selection.
DrawsWithinOptions ==
    \A j \in 1..Len(form_struct.questions) :
        LET q == form_struct.questions[j] IN
        (q.type \in ChoiceTypes /\ q.options # <<>>) =>
            IF q.type = "checkbox"
            THEN /\ Range(draws[j]) \subseteq Range(q.options)
                 /\ Len(draws[j]) >= 1
                 /\ Len(draws[j]) <= Max(1, Len(q.options) \div 2)
                 /\ Len(q.options) = 2 => Len(draws[j]) = 1
            ELSE draws[j] \in Range(q.options)

\* C5 (as claimed): answers are taken from options; a multi-choice selection
\* has between 1 and max(1, len(options)//2) values, none of them twice, and
\* exactly 1 when there are 2 options.
C5_Claimed ==
    Built =>
        /\ DrawsWithinOptions
        /\ \A j \in 1..Len(form_struct.questions) :
              LET q == form_struct.questions[j] IN
              (q.type = "checkbox" /\ q.options # <<>>) =>
                  \A a, b \in 1..Len(draws[j]) : a # b => draws[j][a] # draws[j][b]

\* C5 (amended): as claimed, except that a multi-choice selection holds a
\* value at most as often as options holds it (no position of options is
\* chosen twice), so it is free of duplicates when options is.
C5_AnswersWithinOptions ==
    Built =>
        /\ DrawsWithinOptions
        /\ \A j \in 1..Len(form_struct.questions) :
              LET q == form_struct.questions[j] IN
              (q.type = "checkbox" /\ q.options # <<>>) =>
                  \A v \in Range(draws[j]) :
                      Occurrences(draws[j], v) <= Occurrences(q.options, v)

C5_Witness ==
    /\ Built
    /\ \E j \in 1..Len(form_struct.questions) :
          /\ form_struct.questions[j].type = "checkbox"
          /\ Len(form_struct.questions[j].options) = 4
          /\ Cardinality(Range(form_struct.questions[j].options)) = 4
          /\ Len(draws[j]) = 2
    /\ \E j \in 1..Len(form_struct.questions) :
          /\ form_struct.questions[j].type = "checkbox"
          /\ Len(form_struct.questions[j].options) = 2
          /\ Len(draws[j]) = 1

----------------------------------------------------------------------------
(* Properties of main(): the submission loop and the cache *)

Returned200(r) == r.kind = "status" /\ r.code = 200

\* The loop's bookkeeping: one payload built and one outcome per attempt,
\* never more than M attempts, the success counter equal to the number of
\* 200 responses, no abort once the schema is there, and M attempts made
\* when the final report is printed.
LoopAccounting ==
    /\ i <= M
    /\ Len(outcomes) = i
    /\ builds = i
    /\ success = Cardinality({k \in 1..Len(outcomes) : Returned200(outcomes[k])})
    /\ success <= i
    /\ (pc = "aborted") => (i = 0 /\ form_struct = None)
    /\ (pc = "done") => (i = M /\ Len(outcomes) = M)
    /\ (i > 0) => (HasSchema /\ post_data # <<>>)

\* C7: with a schema available the loop makes exactly M attempts, each with
\* a newly built payload, whatever the earlier attempts returned or raised;
\* the run reaches its final report, and the reported count is the number of
\* attempts that returned 200.
C7_LoopRunsAllAttempts ==
    /\ [](LoopAccounting)
    /\ (pc = "submit") ~> (pc = "done")

C7_Witness ==
    /\ pc = "done"
    /\ M = 2
    /\ outcomes[1].kind = "raises"
    /\ Returned200(outcomes[2])
    /\ success = 1

\* Every key of the last payload is a token name or a field_id of the
\* schema stored in the cache file, and its token is the stored one.
PayloadFromCacheFile ==
    Built =>
        /\ cache # <<>>
        /\ post_data[1] = <<FbzxKey, PyValue(cache[1].fbzx)>>
        /\ \A t \in 1..Len(post_data) :
              post_data[t][1] \in TokenKeys \cup Range(FieldIds(cache[1].questions))

\* C9: with a cache file at start-up extraction never runs and the payloads
\* come from the stored schema; with none, extraction runs once, its result
\* is stored before the first attempt, and the schema stays the same for all
\* payloads.
C9_SchemaProducedOnceAndReused ==
    /\ (cache # <<>>) =>
          [](/\ extractions = 0
             /\ cache_writes = 0
             /\ cache # <<>>
             /\ HasSchema => form_struct = JsonLoad(cache[1])
             /\ PayloadFromCacheFile)
    /\ (cache = <<>>) =>
          [](/\ extractions <= 1
             /\ cache_writes <= 1
             /\ HasSchema => (/\ extractions = 1
                              /\ cache_writes = 1
                              /\ cache = <<JsonDump(form_struct)>>
                              /\ form_struct = JsonLoad(cache[1])
                              /\ form_struct.fbzx = page.fbzx[1])
             /\ PayloadFromCacheFile)
    /\ [][HasSchema => (form_struct' = form_struct /\ cache' = cache
                        /\ extractions' = extractions)]_vars

C9_Witness ==
    /\ pc = "done"
    /\ extractions = 0
    /\ builds = 2
    /\ Len(form_struct.questions) = 2
    /\ form_struct.fbzx # page.fbzx[1]

====
